---- MODULE Spec2Model ----
(***************************************************************************)
(* PPChat: room-scoped message relay.                                      *)
(*                                                                         *)
(* Two deployments of the same relay are modelled:                         *)
(*   mode = "server": src/server.ts, the socket.io relay with its          *)
(*                    10 minute retention sweep;                           *)
(*   mode = "peer"  : src/src/App.tsx, PeerJS, one browser tab is host.    *)
(* A behaviour runs in one deployment; the variables of the other keep     *)
(* their initial values.                                                   *)
(***************************************************************************)
EXTENDS Integers, Sequences, FiniteSets, TLC

\* ------------------------------------------------------------------ bounds
MaxSends == 2      \* "send-message" events the server handles in one behaviour
MaxInFlight == 1    \* events one socket holds unhandled, each way
MaxPeerSends == 1  \* chat messages typed in one peer session

\* --------------------------------------------------------- program constants
CLEANUP_INTERVAL == 60000
MESSAGE_TTL == 600000

\* ------------------------------------------------------------------ inputs
Tabs == {"t1", "t2", "t3"}            \* browser tabs: one socket or one Peer each
RoomNames == {"x", "y"}               \* room names as typed, trimmed
Ids == {"a", "b"}                     \* Math.random().toString(36).substring(2, 9)
Instants == {1, 600000}               \* values Date.now() takes after start (0)
TimedInstants == {1, 630000} \cup {k * CLEANUP_INTERVAL : k \in 1..12}
ClientTabs == {"t1", "t2"}             \* tabs that run the socket.io App
PeerInstants == {1}                   \* the same, while a peer session is set up
PeerRooms == {"x"}                    \* room names typed in the peer deployment
TypedNames == {"x", "X", " x", "X "}  \* spellings of one room name in the input box
Null == "null"
Username(c) == "ann"                  \* username.trim() || null, the same in every tab

VARIABLES
  mode,         \* "server" | "client" | "peer": which deployment runs; "server" is
                \* the server with any client behind its sockets, "client" the
                \* server with the socket.io App of server.ts 147-239 behind them
  toServer,     \* per tab: events its socket emitted that the server has not handled
  toClient,     \* per tab: events emitted to its socket that the App has not handled
  now,          \* Date.now()
  \* ---- server.ts
  rooms,        \* rooms: Record<string, { messages: Message[] }>
  members,      \* socket.io adapter: room name -> sockets that joined it
  joined,       \* history: per tab of the App, the rooms a socket of it was put in
                \* and not taken out of by "leave-room"
  lastSweep,    \* when the setInterval callback last ran (start time at first)
  sent,         \* history: every message ever pushed to a room's log, in push order
  emitted,      \* what the handler that ran last emitted, per receiving socket
  origin,       \* the socket whose event that handler served (Null: none emitted)
  \* ---- src/App.tsx, one record of React state per browser tab
  peer,         \* useState peer: the tab's Peer (Null before setupPeer)
  joining,      \* room id the guestPeer.on("open") handler of a join will connect to
  captured,     \* isHost and connections as closed over by the handlers setupPeer registered
  conn,         \* per guest tab: its DataConnection to a host (Null if none)
  wire,         \* data in flight, per ordered pair of tabs
  isConnected, isConnecting, isHost, error, currentRoom, connections, messages,
  nsent         \* chat messages typed so far (bounded by MaxPeerSends)

serverVars == <<rooms, members, joined, lastSweep, sent, emitted, origin>>
peerVars == <<peer, joining, captured, conn, wire, isConnected, isConnecting, isHost,
              error, currentRoom, connections, messages, nsent>>
vars == <<mode, toServer, toClient, now, rooms, members, joined, lastSweep, sent, emitted, origin, peer, joining, captured,
          conn, wire, isConnected, isConnecting, isHost, error, currentRoom,
          connections, messages, nsent>>

\* ------------------------------------------------------------------ helpers
\* String.prototype.trim on the names that are typed
trim(roomName) ==
  CASE roomName = " x" -> "x"
    [] roomName = "X " -> "X"
    [] OTHER -> roomName

\* every key a client can name a room by
AllRooms == RoomNames \cup {trim(typed) : typed \in TypedNames}

SetFn(f, k, v) == [x \in DOMAIN f \cup {k} |-> IF x = k THEN v ELSE f[x]]

IdsOf(list) == {list[i].id : i \in DOMAIN list}

Nothing == [d \in Tabs |-> << >>]

NoPeer == [id |-> Null, state |-> "none", roomName |-> Null]

NoConn == [host |-> Null, state |-> "none", hostOpen |-> FALSE, guestOpen |-> FALSE,
           hostClosed |-> FALSE, guestClosed |-> FALSE]

\* one packet on the wire: the event name and its argument
Packet(type, arg) == [type |-> type, arg |-> arg]

\* ------------------------------------------------------------------ Init
Start ==
  /\ toServer = Nothing
  /\ toClient = Nothing
  /\ now = 0
  /\ rooms = << >>
  /\ members = [r \in AllRooms |-> {}]
  /\ joined = [c \in Tabs |-> {}]
  /\ lastSweep = 0
  /\ sent = [r \in AllRooms |-> << >>]
  /\ emitted = Nothing
  /\ origin = Null
  /\ peer = [p \in Tabs |-> NoPeer]
  /\ joining = [p \in Tabs |-> Null]
  /\ captured = [p \in Tabs |-> [isHost |-> FALSE, connections |-> << >>]]
  /\ conn = [p \in Tabs |-> NoConn]
  /\ wire = [pq \in Tabs \X Tabs |-> << >>]
  /\ isConnected = [p \in Tabs |-> FALSE]
  /\ isConnecting = [p \in Tabs |-> FALSE]
  /\ isHost = [p \in Tabs |-> FALSE]
  /\ error = [p \in Tabs |-> Null]
  /\ currentRoom = [p \in Tabs |-> Null]
  /\ connections = [p \in Tabs |-> << >>]
  /\ messages = [p \in Tabs |-> << >>]
  /\ nsent = 0

Init == mode \in {"server", "peer"} /\ Start

\* ------------------------------------------------------------------ clock
Tick ==
  /\ \E t \in (IF mode = "server" THEN Instants ELSE PeerInstants) : t > now /\ now' = t
  /\ emitted' = Nothing
  /\ origin' = Null
  /\ UNCHANGED <<mode, toServer, toClient, rooms, members, joined, lastSweep, sent, peerVars>>

\* -------------------------------------------- server.ts 34-50: retention sweep
RetainedInclusive(list, t) == SelectSeq(list, LAMBDA msg : t - msg.timestamp <= MESSAGE_TTL)

RetainedExpired(list, t) == SelectSeq(list, LAMBDA msg : t - msg.timestamp > MESSAGE_TTL)

RetainedGrace(list, t) ==
  SelectSeq(list, LAMBDA msg : t - msg.timestamp < MESSAGE_TTL + CLEANUP_INTERVAL)

Retained(list, t) == SelectSeq(list, LAMBDA msg : t - msg.timestamp < MESSAGE_TTL)

\* the commented-out "aggressive cleanup": delete rooms[roomName] when its log is empty
SweepRoomsAggressive(rs, t) ==
  [roomName \in {r \in DOMAIN rs : Retained(rs[r].messages, t) # << >>} |->
     [messages |-> Retained(rs[roomName].messages, t)]]

\* Object.keys(rooms).forEach(roomName => rooms[roomName].messages = ...filter(...))
SweepRooms(rs, t) ==
  [roomName \in DOMAIN rs |-> [messages |-> Retained(rs[roomName].messages, t)]]

Sweep ==
  /\ mode = "server"
  /\ now >= lastSweep + CLEANUP_INTERVAL
  /\ rooms' = SweepRooms(rooms, now)
  /\ lastSweep' = now
  /\ emitted' = Nothing
  /\ origin' = Null
  /\ UNCHANGED <<mode, toServer, toClient, now, members, joined, sent, peerVars>>

\* -------------------------------------------- server.ts 52-89: socket handlers
\* socket.on(event, handler) runs the handler for socket c: any event can come
\* from any client; from the App it is the oldest event its socket emitted
Received(c, packet) ==
  IF mode = "client"
    THEN toServer[c] # << >> /\ Head(toServer[c]) = packet
    ELSE mode = "server"

\* the handled event leaves the socket, and what the handler emitted (to)
\* travels to the receiving sockets
Transport(c, to) ==
  IF mode = "client"
    THEN /\ toServer' = [toServer EXCEPT ![c] = Tail(@)]
         /\ toClient' = [d \in Tabs |-> toClient[d] \o to[d]]
         /\ \A d \in Tabs : Len(toClient'[d]) <= MaxInFlight
    ELSE UNCHANGED <<toServer, toClient>>

\* the socket of tab c is gone: nothing emitted to it arrives, and of what it
\* emitted only the events still buffered in the App reach the next socket
Dropped(c) ==
  IF mode = "client"
    THEN /\ toClient' = [toClient EXCEPT ![c] = << >>]
         /\ \E k \in 0..Len(toServer[c]) :
              toServer' = [toServer EXCEPT ![c] = SubSeq(@, k + 1, Len(@))]
    ELSE UNCHANGED <<toServer, toClient>>

\* if (!rooms[roomName]) rooms[roomName] = { messages: [] }
EnsureRoom(rs, roomName) ==
  IF roomName \in DOMAIN rs THEN rs ELSE SetFn(rs, roomName, [messages |-> << >>])

HistoryToRoom(c, roomName) == members[roomName] \cup {c}

\* the sockets that socket.emit("room-history", ...) of a join by c reaches
HistoryTo(c, roomName) == {c}

\* what "join-room" emits to socket d when c joins roomName
JoinEmits(c, roomName, d, log) ==
  IF d \in HistoryTo(c, roomName) THEN <<Packet("room-history", log)>> ELSE << >>

OnJoinRoom(c, roomName) ==
  /\ Received(c, Packet("join-room", roomName))
  /\ members' = [members EXCEPT ![roomName] = @ \cup {c}]
  /\ joined' = IF mode = "client" THEN [joined EXCEPT ![c] = @ \cup {roomName}] ELSE joined
  /\ rooms' = EnsureRoom(rooms, roomName)
  /\ emitted' = [d \in Tabs |-> JoinEmits(c, roomName, d, rooms'[roomName].messages)]
  /\ origin' = c
  /\ Transport(c, emitted')
  /\ UNCHANGED <<mode, now, lastSweep, sent, peerVars>>

OnLeaveRoom(c, roomName) ==
  /\ Received(c, Packet("leave-room", roomName))
  /\ members' = [members EXCEPT ![roomName] = @ \ {c}]
  /\ joined' = IF mode = "client" THEN [joined EXCEPT ![c] = @ \ {roomName}] ELSE joined
  /\ emitted' = Nothing
  /\ origin' = Null
  /\ Transport(c, emitted')
  /\ UNCHANGED <<mode, now, rooms, lastSweep, sent, peerVars>>

StampKeepsClient(message, id, t) ==
  [f \in DOMAIN message \cup {"id", "timestamp"} |->
     IF f \in DOMAIN message THEN message[f] ELSE IF f = "id" THEN id ELSE t]

\* fullMessage = { ...message, id: Math.random()..., timestamp: Date.now() }
Stamp(message, id, t) ==
  [f \in DOMAIN message \cup {"id", "timestamp"} |->
     IF f = "id" THEN id ELSE IF f = "timestamp" THEN t ELSE message[f]]

PushFront(list, fullMessage) == <<fullMessage>> \o list

\* rooms[roomName].messages.push(fullMessage)
Push(list, fullMessage) == Append(list, fullMessage)

IoToOthers(c, roomName) == members[roomName] \ {c}

IoToEveryone(c, roomName) == Tabs

\* the sockets io.to(roomName).emit reaches when socket c sent the message
IoTo(c, roomName) == members[roomName]

OnSendMessage(c, roomName, message) ==
  /\ Received(c, Packet("send-message", [roomName |-> roomName, message |-> message]))
  /\ Len(sent["x"]) + Len(sent["y"]) < MaxSends
  /\ \E id \in Ids :
       LET fullMessage == Stamp(message, id, now) IN
         /\ rooms' = [EnsureRoom(rooms, roomName) EXCEPT
                        ![roomName].messages = Push(@, fullMessage)]
         /\ sent' = [sent EXCEPT ![roomName] = Append(@, fullMessage)]
         /\ emitted' = [d \in Tabs |-> IF d \in IoTo(c, roomName)
                                        THEN <<Packet("new-message", fullMessage)>>
                                        ELSE << >>]
  /\ origin' = c
  /\ Transport(c, emitted')
  /\ UNCHANGED <<mode, now, members, joined, lastSweep, peerVars>>

\* socket.on("disconnect") only logs; socket.io has taken the socket out of
\* every room by then. The tab's next socket (io.on("connection")) starts in
\* no room, so c stands for whichever socket the tab holds.
OnDisconnect(c) ==
  /\ mode \in {"server", "client"}
  /\ members' = [r \in DOMAIN members |-> members[r] \ {c}]
  /\ emitted' = Nothing
  /\ origin' = Null
  /\ Dropped(c)
  /\ UNCHANGED <<mode, now, joined, rooms, lastSweep, sent, peerVars>>

\* server.ts 187-194: handleJoinRoom of the socket.io client, with the
\* "join-room" handler it triggers: the room key is the typed name, trimmed
RoomKey(roomName) == trim(roomName)

\* socket.emit(event, arg) of the App in tab c
Emit(c, packet) ==
  /\ Len(toServer[c]) < MaxInFlight
  /\ toServer' = [toServer EXCEPT ![c] = Append(@, packet)]
  /\ emitted' = Nothing
  /\ origin' = Null
  /\ UNCHANGED <<mode, toClient, now, rooms, members, joined, lastSweep, sent>>

\* in mode "server" the join is taken where it reaches the server
handleJoinRoom(c, roomName) ==
  /\ RoomKey(roomName) # ""
  /\ IF mode = "client"
       THEN /\ currentRoom[c] = Null                  \* the join form is shown
            /\ Emit(c, Packet("join-room", RoomKey(roomName)))
            /\ currentRoom' = [currentRoom EXCEPT ![c] = RoomKey(roomName)]
            /\ UNCHANGED <<peer, joining, captured, conn, wire, isConnected, isConnecting,
                           isHost, error, connections, messages, nsent>>
       ELSE OnJoinRoom(c, RoomKey(roomName))

\* server.ts 196-202
handleLeaveRoom(c) ==
  /\ mode = "client"
  /\ currentRoom[c] # Null
  /\ Emit(c, Packet("leave-room", currentRoom[c]))
  /\ currentRoom' = [currentRoom EXCEPT ![c] = Null]
  /\ messages' = [messages EXCEPT ![c] = << >>]
  /\ UNCHANGED <<peer, joining, captured, conn, wire, isConnected, isConnecting,
                 isHost, error, connections, nsent>>

\* server.ts 204-216: the message a client submits from sendMessage
ClientMessage(c) == [sender |-> Username(c), text |-> "hi"]

\* server.ts 218-239: the message a client submits from handleFileUpload
ClientFile(c) ==
  [sender |-> Username(c),
   file |-> [name |-> "f.png", type |-> "image/png", data |-> "data:image/png;base64,AA"]]

Submissions(c) == {ClientMessage(c), ClientFile(c)}

\* server.ts 204-216
sendMessage(c) ==
  /\ mode = "client"
  /\ currentRoom[c] # Null
  /\ nsent < MaxSends
  /\ nsent' = nsent + 1
  /\ Emit(c, Packet("send-message",
                    [roomName |-> currentRoom[c], message |-> ClientMessage(c)]))
  /\ UNCHANGED <<peer, joining, captured, conn, wire, isConnected, isConnecting,
                 isHost, error, currentRoom, connections, messages>>

\* server.ts 170-172: newSocket.on("room-history", history => setMessages(history))
OnRoomHistory(c) ==
  /\ mode = "client"
  /\ toClient[c] # << >>
  /\ Head(toClient[c]).type = "room-history"
  /\ messages' = [messages EXCEPT ![c] = Head(toClient[c]).arg]
  /\ toClient' = [toClient EXCEPT ![c] = Tail(@)]
  /\ emitted' = Nothing
  /\ origin' = Null
  /\ UNCHANGED <<mode, toServer, now, rooms, members, joined, lastSweep, sent, peer, joining,
                 captured, conn, wire, isConnected, isConnecting, isHost, error,
                 currentRoom, connections, nsent>>

\* server.ts 174-176: newSocket.on("new-message", message => setMessages(prev => [...prev, message]))
OnNewMessage(c) ==
  /\ mode = "client"
  /\ toClient[c] # << >>
  /\ Head(toClient[c]).type = "new-message"
  /\ messages' = [messages EXCEPT ![c] = Append(@, Head(toClient[c]).arg)]
  /\ toClient' = [toClient EXCEPT ![c] = Tail(@)]
  /\ emitted' = Nothing
  /\ origin' = Null
  /\ UNCHANGED <<mode, toServer, now, rooms, members, joined, lastSweep, sent, peer, joining,
                 captured, conn, wire, isConnected, isConnecting, isHost, error,
                 currentRoom, connections, nsent>>

\* a "send-message" event whose message already carries an id and a timestamp
ClientStamped(c) ==
  [sender |-> Username(c), text |-> "forged", id |-> "client", timestamp |-> 7]

\* ------------------------------------------------ src/App.tsx 48-210: a tab
MY_ID(p) == p                          \* localStorage "ppchat-client-id"

toLowerCase(roomName) == IF roomName = "X" THEN "x" ELSE roomName

\* const roomId = `ppchat-rm-${roomName.trim().toLowerCase()}`
RoomId(roomName) == "ppchat-rm-" \o toLowerCase(trim(roomName))

\* the tab whose open Peer holds this id at the signalling server, if any
Holders(id) == {q \in Tabs : peer[q].id = id /\ peer[q].state = "open"}

\* addMessage: setMessages(prev => prev.find(m => m.id === msg.id) ? prev : [...prev, msg])
addMessage(prev, msg) == IF msg.id \in IdsOf(prev) THEN prev ELSE Append(prev, msg)

\* conn.send(msg) on the connection of tab p whose remote end is tab q
connSend(w, p, q, msg) == [w EXCEPT ![<<p, q>>] = Append(@, msg)]

\* broadcast: conns.forEach(conn => { if (!excludeConns.some(...)) conn.send(msg) })
RECURSIVE broadcast(_, _, _, _, _)
broadcast(w, p, conns, msg, excludeConns) ==
  IF conns = << >> THEN w
  ELSE broadcast(IF Head(conns) \in excludeConns THEN w
                 ELSE connSend(w, p, Head(conns), msg),
                 p, Tail(conns), msg, excludeConns)

\* a Message without a file: file is undefined
NoFile == [name |-> Null, type |-> Null, data |-> Null, size |-> 0, folderPath |-> "",
           previewUrl |-> Null]

SystemMessage(prefix, t, sender, senderId, text) ==
  [id |-> <<prefix, t, Null>>, sender |-> sender, senderId |-> senderId,
   text |-> text, file |-> NoFile, timestamp |-> t, type |-> "system"]

ChatMessage(p, t, rnd) ==
  [id |-> <<"msg", t, rnd>>, sender |-> Username(p), senderId |-> MY_ID(p),
   text |-> "hi", file |-> NoFile, timestamp |-> t, type |-> Null]

\* the Message handleFileUpload builds for one chosen file
FileMessage(p, t, rnd) ==
  [id |-> <<"file", t, rnd>>, sender |-> Username(p), senderId |-> MY_ID(p),
   text |-> Null,
   file |-> [name |-> "f.png", type |-> "image/png", data |-> "bytes", size |-> 1,
             folderPath |-> "", previewUrl |-> Null],
   timestamp |-> t, type |-> Null]

\* processFileMessage: a file without a preview gets an object URL of tab p
processFileMessage(p, msg) ==
  IF msg.file.data # Null /\ msg.file.previewUrl = Null
  THEN [msg EXCEPT !.file.previewUrl = "blob:" \o p]
  ELSE msg

cleanMsgKeepsPreview(msg) == msg

cleanMsgStampsArrival(msg) == [msg EXCEPT !.file.previewUrl = Null, !.timestamp = now]

\* cleanMsg = { ...msg, file: msg.file ? { ...msg.file, previewUrl: undefined } : undefined }
cleanMsg(msg) == [msg EXCEPT !.file.previewUrl = Null]

\* handleJoinOrCreate, with the setupPeer call it makes. The handlers setupPeer
\* registers call the handleReceivedData and broadcast of this render, so they
\* keep this render's isHost and connections.
handleJoinOrCreate(p, type, roomName) ==
  /\ mode = "peer"
  /\ ~isConnected[p] /\ ~isConnecting[p]       \* the form, buttons enabled
  /\ peer[p].state # "destroyed"               \* this page load has not ended
  /\ error' = [error EXCEPT ![p] = Null]
  /\ isConnecting' = [isConnecting EXCEPT ![p] = TRUE]
  /\ peer' = [peer EXCEPT ![p] =
                [id |-> IF type = "host" THEN RoomId(roomName) ELSE p,
                 state |-> "pending", roomName |-> roomName]]
  /\ joining' = [joining EXCEPT ![p] = IF type = "host" THEN Null ELSE RoomId(roomName)]
  /\ captured' = [captured EXCEPT ![p] =
                    [isHost |-> isHost[p], connections |-> connections[p]]]
  /\ conn' = [conn EXCEPT ![p] = NoConn]
  /\ UNCHANGED <<mode, toServer, toClient, now, serverVars, wire, isConnected, isHost, currentRoom,
                 connections, messages, nsent>>

\* newPeer.on("open") of a host: the signalling server granted the room id
HostPeerOpen(p) ==
  /\ mode = "peer"
  /\ peer[p].state = "pending" /\ joining[p] = Null
  /\ Holders(peer[p].id) = {}
  /\ peer' = [peer EXCEPT ![p].state = "open"]
  /\ isConnected' = [isConnected EXCEPT ![p] = TRUE]
  /\ isConnecting' = [isConnecting EXCEPT ![p] = FALSE]
  /\ currentRoom' = [currentRoom EXCEPT ![p] = trim(peer[p].roomName)]
  /\ isHost' = [isHost EXCEPT ![p] = TRUE]
  /\ UNCHANGED <<mode, toServer, toClient, now, serverVars, joining, captured, conn, wire, error,
                 connections, messages, nsent>>

ErrorTextPlain(type) == "Connection error: " \o type

\* err.type === "unavailable-id" ? "Room name is already taken." : `Connection error: ${err.type}`
ErrorText(type) ==
  IF type = "unavailable-id" THEN "Room name is already taken." ELSE "Connection error: " \o type

\* newPeer.on("error") with err.type "unavailable-id"
HostPeerUnavailableId(p) ==
  /\ mode = "peer"
  /\ peer[p].state = "pending" /\ joining[p] = Null
  /\ Holders(peer[p].id) # {}
  /\ peer' = [peer EXCEPT ![p].state = "error"]
  /\ isConnecting' = [isConnecting EXCEPT ![p] = FALSE]
  /\ error' = [error EXCEPT ![p] = ErrorText("unavailable-id")]
  /\ UNCHANGED <<mode, toServer, toClient, now, serverVars, joining, captured, conn, wire, isConnected,
                 isHost, currentRoom, connections, messages, nsent>>

\* guestPeer.on("open"): guestPeer.connect(roomId); the host's
\* newPeer.on("connection") registers its handlers on the incoming connection.
\* A host whose id is held but whose page does not answer the offer leaves the
\* connection "unanswered": no event of it ever reaches the guest.
GuestPeerOpen(p) ==
  /\ mode = "peer"
  /\ peer[p].state = "pending" /\ joining[p] # Null
  /\ peer' = [peer EXCEPT ![p].state = "open"]
  /\ IF Holders(joining[p]) = {}
     THEN conn' = [conn EXCEPT ![p] = [NoConn EXCEPT !.state = "unavailable"]]
     ELSE \E h \in Holders(joining[p]) : \E answer \in {"linking", "unanswered"} :
            conn' = [conn EXCEPT ![p] = [NoConn EXCEPT !.host = h, !.state = answer]]
  /\ UNCHANGED <<mode, toServer, toClient, now, serverVars, joining, captured, wire, isConnected,
                 isConnecting, isHost, error, currentRoom, connections, messages, nsent>>

\* newPeer.on("error") with err.type "peer-unavailable": nobody holds the room id
GuestPeerUnavailable(p) ==
  /\ mode = "peer"
  /\ conn[p].state = "unavailable"
  /\ conn' = [conn EXCEPT ![p] = NoConn]
  /\ isConnecting' = [isConnecting EXCEPT ![p] = FALSE]
  /\ error' = [error EXCEPT ![p] = ErrorText("peer-unavailable")]
  /\ UNCHANGED <<mode, toServer, toClient, now, serverVars, peer, joining, captured, wire, isConnected,
                 isHost, currentRoom, connections, messages, nsent>>

RegisterTwice(conns, g) == conns \o <<g, g>>

\* setConnections(prev => [...prev, conn])
Register(conns, g) == Append(conns, g)

UnregisterNone(conns, g) == conns

\* setConnections(prev => prev.filter(c => c.peer !== conn.peer))
Unregister(conns, g) == SelectSeq(conns, LAMBDA c : c # g)

\* host side conn.on("open")
HostConnOpen(h, g) ==
  /\ mode = "peer"
  /\ conn[g].state = "linking" /\ conn[g].host = h /\ ~conn[g].hostOpen
  /\ conn' = [conn EXCEPT ![g].hostOpen = TRUE]
  /\ connections' = [connections EXCEPT ![h] = Register(@, g)]
  /\ messages' = [messages EXCEPT ![h] =
       addMessage(@, SystemMessage("sys", now, "System", "system", "A peer connected"))]
  /\ UNCHANGED <<mode, toServer, toClient, now, serverVars, peer, joining, captured, wire, isConnected,
                 isConnecting, isHost, error, currentRoom, nsent>>

\* guest side conn.on("open")
GuestConnOpen(g) ==
  /\ mode = "peer"
  /\ conn[g].state = "linking" /\ ~conn[g].guestOpen
  /\ conn' = [conn EXCEPT ![g].guestOpen = TRUE]
  /\ isConnected' = [isConnected EXCEPT ![g] = TRUE]
  /\ isConnecting' = [isConnecting EXCEPT ![g] = FALSE]
  /\ isHost' = [isHost EXCEPT ![g] = FALSE]
  /\ currentRoom' = [currentRoom EXCEPT ![g] = trim(peer[g].roomName)]
  /\ connections' = [connections EXCEPT ![g] = <<conn[g].host>>]
  /\ wire' = connSend(wire, g, conn[g].host,
                      SystemMessage("sys-join", now, Username(g), MY_ID(g), "joined the protocol"))
  /\ UNCHANGED <<mode, toServer, toClient, now, serverVars, peer, joining, captured, error, messages, nsent>>

RelayToAll(w, p, msg, from) == broadcast(w, p, connections[p], msg, {})

\* if (isHost) broadcast(msg, [fromConn]), with the isHost and the connections
\* of the render that registered the handler
Relay(w, p, msg, from) ==
  IF captured[p].isHost THEN broadcast(w, p, captured[p].connections, msg, {from}) ELSE w

\* conn.on("data", data => handleReceivedData(data, conn)), on either end
handleReceivedData(p, from) ==
  /\ mode = "peer"
  /\ wire[<<from, p>>] # << >>
  /\ \/ conn[p].host = from /\ conn[p].guestOpen /\ conn[p].state = "linking"
     \/ conn[from].host = p /\ conn[from].hostOpen /\ conn[from].state = "linking"
  /\ LET msg == Head(wire[<<from, p>>]) IN
       /\ messages' = [messages EXCEPT ![p] = addMessage(@, processFileMessage(p, cleanMsg(msg)))]
       /\ wire' = Relay([wire EXCEPT ![<<from, p>>] = Tail(@)], p, msg, from)
  /\ UNCHANGED <<mode, toServer, toClient, now, serverVars, peer, joining, captured, conn, isConnected,
                 isConnecting, isHost, error, currentRoom, connections, nsent>>

\* host side conn.on("close"): the guest's end of the connection is gone
HostConnClose(h, g) ==
  /\ mode = "peer"
  /\ conn[g].state = "closed" /\ conn[g].host = h /\ ~conn[g].hostClosed
  /\ peer[h].state = "open"
  /\ conn' = [conn EXCEPT ![g].hostClosed = TRUE]
  /\ connections' = [connections EXCEPT ![h] = Unregister(@, g)]
  /\ UNCHANGED <<mode, toServer, toClient, now, serverVars, peer, joining, captured, wire, isConnected,
                 isConnecting, isHost, error, currentRoom, messages, nsent>>

\* the "close" event of a guest's connection, whose host is gone: the guest
\* has registered "open", "data" and "error" handlers on it, and none for "close"
GuestConnClose(g) ==
  /\ mode = "peer"
  /\ conn[g].state = "closed" /\ ~conn[g].guestClosed
  /\ peer[g].state = "open"
  /\ conn' = [conn EXCEPT ![g].guestClosed = TRUE]
  /\ UNCHANGED <<mode, toServer, toClient, now, serverVars, peer, joining, captured, wire, isConnected,
                 isConnecting, isHost, error, currentRoom, connections, messages, nsent>>

\* the connection of guest g after tab p, one of its two ends, destroyed its Peer
Destroyed(g, p) ==
  IF conn[g].state = "linking" /\ (g = p \/ conn[g].host = p)
  THEN [conn[g] EXCEPT !.state = "closed",
                       !.hostClosed = (conn[g].host = p),
                       !.guestClosed = (g = p)]
  ELSE conn[g]

\* the "Destroy" button: peer?.destroy(); window.location.reload(). The page
\* that loads next is another page load, with the state of Init.
Logout(p) ==
  /\ mode = "peer"
  /\ isConnected[p] /\ peer[p].state = "open"
  /\ peer' = [peer EXCEPT ![p] = [NoPeer EXCEPT !.state = "destroyed"]]
  /\ conn' = [g \in Tabs |-> Destroyed(g, p)]
  /\ wire' = [pq \in Tabs \X Tabs |-> IF p \in {pq[1], pq[2]} THEN << >> ELSE wire[pq]]
  /\ joining' = [joining EXCEPT ![p] = Null]
  /\ captured' = [captured EXCEPT ![p] = [isHost |-> FALSE, connections |-> << >>]]
  /\ isConnected' = [isConnected EXCEPT ![p] = FALSE]
  /\ isConnecting' = [isConnecting EXCEPT ![p] = FALSE]
  /\ isHost' = [isHost EXCEPT ![p] = FALSE]
  /\ error' = [error EXCEPT ![p] = Null]
  /\ currentRoom' = [currentRoom EXCEPT ![p] = Null]
  /\ connections' = [connections EXCEPT ![p] = << >>]
  /\ messages' = [messages EXCEPT ![p] = << >>]
  /\ UNCHANGED <<mode, toServer, toClient, now, serverVars, nsent>>

\* sendMessage of the render on screen: it sees the current isHost and connections
peerSendMessage(p) ==
  /\ mode = "peer"
  /\ isConnected[p] /\ peer[p].state # "none"
  /\ nsent < MaxPeerSends
  /\ nsent' = nsent + 1
  /\ \E rnd \in Ids :
       LET msg == ChatMessage(p, now, rnd) IN
         /\ messages' = [messages EXCEPT ![p] = addMessage(@, msg)]
         /\ wire' = IF isHost[p] THEN broadcast(wire, p, connections[p], msg, {})
                    ELSE IF connections[p] = << >> THEN wire
                    ELSE connSend(wire, p, connections[p][1], msg)
  /\ UNCHANGED <<mode, toServer, toClient, now, serverVars, peer, joining, captured, conn, isConnected,
                 isConnecting, isHost, error, currentRoom, connections>>

\* handleFileUpload with one file chosen: addMessage gives msg its preview
\* before msg is sent
handleFileUpload(p) ==
  /\ mode = "peer"
  /\ isConnected[p] /\ peer[p].state # "none"
  /\ nsent < MaxPeerSends
  /\ nsent' = nsent + 1
  /\ \E rnd \in Ids :
       LET msg == processFileMessage(p, FileMessage(p, now, rnd)) IN
         /\ messages' = [messages EXCEPT ![p] = addMessage(@, msg)]
         /\ wire' = IF isHost[p] THEN broadcast(wire, p, connections[p], msg, {})
                    ELSE IF connections[p] = << >> THEN wire
                    ELSE connSend(wire, p, connections[p][1], msg)
  /\ UNCHANGED <<mode, toServer, toClient, now, serverVars, peer, joining, captured, conn, isConnected,
                 isConnecting, isHost, error, currentRoom, connections>>

NextPeer ==
  \/ Tick
  \/ \E p \in Tabs : \E type \in {"host", "join"} : \E roomName \in PeerRooms :
       handleJoinOrCreate(p, type, roomName)
  \/ \E p \in Tabs : HostPeerOpen(p)
  \/ \E p \in Tabs : HostPeerUnavailableId(p)
  \/ \E p \in Tabs : GuestPeerOpen(p)
  \/ \E p \in Tabs : GuestPeerUnavailable(p)
  \/ \E h \in Tabs : \E g \in Tabs : HostConnOpen(h, g)
  \/ \E g \in Tabs : GuestConnOpen(g)
  \/ \E p \in Tabs : \E from \in Tabs : handleReceivedData(p, from)
  \/ \E h \in Tabs : \E g \in Tabs : HostConnClose(h, g)
  \/ \E g \in Tabs : GuestConnClose(g)
  \/ \E p \in Tabs : Logout(p)
  \/ \E p \in Tabs : peerSendMessage(p)

NextServer ==
  \/ Tick
  \/ Sweep
  \/ \E c \in Tabs : \E roomName \in RoomNames : OnJoinRoom(c, roomName)
  \/ \E c \in Tabs : \E roomName \in RoomNames : OnLeaveRoom(c, roomName)
  \/ \E c \in Tabs : \E roomName \in RoomNames :
       OnSendMessage(c, roomName, ClientMessage(c))
  \/ \E c \in Tabs : OnDisconnect(c)

InitServer == Init /\ mode = "server"

InitPeer == Init /\ mode = "peer"

SpecServer == InitServer /\ [][NextServer]_vars

SpecPeer == InitPeer /\ [][NextPeer]_vars

\* the steps in which a typed room name becomes a room key or a host id
NextNames ==
  \/ \E c \in Tabs : \E roomName \in TypedNames : handleJoinRoom(c, roomName)
  \/ \E p \in Tabs : \E type \in {"host", "join"} : \E roomName \in TypedNames :
       handleJoinOrCreate(p, type, roomName)
  \/ \E p \in Tabs : HostPeerOpen(p)
  \/ \E p \in Tabs : HostPeerUnavailableId(p)
  \/ \E p \in Tabs : GuestPeerOpen(p)
  \/ \E p \in Tabs : GuestPeerUnavailable(p)

SpecNames == Init /\ [][NextNames]_vars

\* the steps that take a message from the tab that submits it to a room log or
\* to another tab's list, in room "x"
NextRoundTrip ==
  \/ \E c \in Tabs : OnJoinRoom(c, "x")
  \/ \E c \in Tabs : \E message \in Submissions(c) : OnSendMessage(c, "x", message)
  \/ \E p \in Tabs : \E type \in {"host", "join"} : handleJoinOrCreate(p, type, "x")
  \/ \E p \in Tabs : HostPeerOpen(p)
  \/ \E p \in Tabs : GuestPeerOpen(p)
  \/ \E h \in Tabs : \E g \in Tabs : HostConnOpen(h, g)
  \/ \E g \in Tabs : GuestConnOpen(g)
  \/ \E p \in Tabs : \E from \in Tabs : handleReceivedData(p, from)
  \/ \E p \in Tabs : peerSendMessage(p)
  \/ \E p \in Tabs : handleFileUpload(p)

SpecRoundTrip == Init /\ [][NextRoundTrip]_vars

\* what PeerJS does for tab p once it is due: the events of its Peer and of
\* its connections are delivered; clicks and typing are up to the user
PeerEvents(p) ==
  \/ HostPeerOpen(p)
  \/ HostPeerUnavailableId(p)
  \/ GuestPeerOpen(p)
  \/ GuestPeerUnavailable(p)
  \/ GuestConnOpen(p)
  \/ GuestConnClose(p)
  \/ \E g \in Tabs : HostConnOpen(p, g)
  \/ \E g \in Tabs : HostConnClose(p, g)
  \/ \E from \in Tabs : handleReceivedData(p, from)

SpecPeerFair == SpecPeer /\ \A p \in Tabs : WF_vars(PeerEvents(p))

\* the steps that put a submitted message into the log of room "x"
NextStamp ==
  \/ Tick
  \/ \E c \in Tabs : OnJoinRoom(c, "x")
  \/ \E c \in Tabs : \E message \in Submissions(c) \cup {ClientStamped(c)} :
       OnSendMessage(c, "x", message)

SpecStamp == InitServer /\ [][NextStamp]_vars

\* the clock while the setInterval callback runs on time: it never passes the
\* instant the next sweep is due at before that sweep has run
TimedTick ==
  /\ mode = "server"
  /\ \E t \in TimedInstants : t > now /\ t <= lastSweep + CLEANUP_INTERVAL /\ now' = t
  /\ emitted' = Nothing
  /\ origin' = Null
  /\ UNCHANGED <<mode, toServer, toClient, rooms, members, joined, lastSweep, sent, peerVars>>

NextTimed ==
  \/ TimedTick
  \/ Sweep
  \/ \E c \in Tabs : OnSendMessage(c, "x", ClientMessage(c))

SpecTimed == InitServer /\ [][NextTimed]_vars

\* the server with the socket.io App in each tab of ClientTabs, within one
\* millisecond and one sweep interval
NextClient ==
  \/ \E c \in ClientTabs : \E roomName \in RoomNames : handleJoinRoom(c, roomName)
  \/ \E c \in ClientTabs : handleLeaveRoom(c)
  \/ \E c \in ClientTabs : sendMessage(c)
  \/ \E c \in ClientTabs : \E roomName \in RoomNames : OnJoinRoom(c, roomName)
  \/ \E c \in ClientTabs : \E roomName \in RoomNames : OnLeaveRoom(c, roomName)
  \/ \E c \in ClientTabs : \E roomName \in RoomNames :
       OnSendMessage(c, roomName, ClientMessage(c))
  \/ \E c \in ClientTabs : OnDisconnect(c)
  \/ \E c \in ClientTabs : OnRoomHistory(c)
  \/ \E c \in ClientTabs : OnNewMessage(c)

InitClient == mode = "client" /\ Start

SpecClient == InitClient /\ [][NextClient]_vars

Next == NextServer \/ NextPeer

Spec == Init /\ [][Next]_vars

\* ===================================================================== claims
Last(list) == list[Len(list)]

Log(roomName) == rooms[roomName].messages

\* the packet a "send-message" handler that just ran has broadcast
Broadcast(roomName) == <<Packet("new-message", Last(rooms'[roomName].messages))>>

\* C1, as stated: the relay never delivers a message back to the connection
\* that sent it: the socket that emitted "send-message" gets no "new-message"
\* for it, and a peer that handles received data sends nothing back on the
\* connection the data arrived on.
C1_NeverEchoed ==
  [][/\ \A c \in Tabs : \A roomName \in RoomNames :
          OnSendMessage(c, roomName, ClientMessage(c)) => emitted'[c] = << >>
     /\ \A p \in Tabs : \A from \in Tabs :
          handleReceivedData(p, from) => wire'[<<p, from>>] = wire[<<p, from>>]]_vars

\* C1, amended: in peer mode nothing goes back on the connection the data
\* arrived on; in server mode the sending socket does get its own message
\* back, exactly when it is registered in the room it named.
C1_EchoOnlyInServerMode ==
  [][/\ \A c \in Tabs : \A roomName \in RoomNames :
          OnSendMessage(c, roomName, ClientMessage(c)) =>
            emitted'[c] = IF c \in members[roomName] THEN Broadcast(roomName) ELSE << >>
     /\ \A p \in Tabs : \A from \in Tabs :
          handleReceivedData(p, from) => wire'[<<p, from>>] = wire[<<p, from>>]]_vars

\* a member of a room has just sent to it and holds its own message again
C1_Witness ==
  \E c \in Tabs : \E roomName \in RoomNames :
    /\ origin = c /\ c \in members[roomName]
    /\ Len(emitted[c]) = 1 /\ emitted[c][1].type = "new-message"
    /\ roomName \in DOMAIN rooms /\ Log(roomName) # << >>
    /\ emitted[c][1].arg = Last(Log(roomName))

\* C2: a message sent by a member of a room goes exactly once to every other
\* socket registered in that room and to no socket that is not registered in it.
C2_FanOutToRoomOnly ==
  [][\A c \in Tabs : \A roomName \in RoomNames :
       (c \in members[roomName] /\ OnSendMessage(c, roomName, ClientMessage(c))) =>
         \A d \in Tabs \ {c} :
           emitted'[d] = IF d \in members[roomName] THEN Broadcast(roomName) ELSE << >>]_vars

\* the sender and a second member in "x", a third socket in "y" only: the
\* second got the message, the third got nothing
C2_Witness ==
  \E c \in Tabs : \E d \in Tabs \ {c} : \E e \in Tabs \ {c, d} :
    /\ origin = c /\ {c, d} \subseteq members["x"]
    /\ e \in members["y"] /\ e \notin members["x"]
    /\ Len(emitted[d]) = 1 /\ emitted[d][1].type = "new-message"
    /\ emitted[e] = << >>

\* C4: right after a retention sweep at time now, every message left in every
\* room's log is younger than 600000 ms.
C4_SweepLeavesOnlyFresh ==
  [][Sweep => \A roomName \in DOMAIN rooms' : \A i \in DOMAIN rooms'[roomName].messages :
                now' - rooms'[roomName].messages[i].timestamp < 600000]_vars

\* a sweep has just run, has removed a message of a room and has kept an
\* older-than-now one
C4_Witness ==
  /\ lastSweep = now /\ now > 0
  /\ \E roomName \in DOMAIN rooms :
       /\ Len(sent[roomName]) > Len(Log(roomName))
       /\ \E i \in DOMAIN Log(roomName) : Log(roomName)[i].timestamp < now

\* C5: a join sends the room's retained log, which is every message pushed to
\* the room before the join and not removed by a sweep, in push order, to the
\* joining socket and to no other socket.
C5_HistoryToJoinerOnly ==
  [][\A c \in Tabs : \A roomName \in RoomNames :
       OnJoinRoom(c, roomName) =>
         emitted' = [d \in Tabs |->
           IF d = c
           THEN <<Packet("room-history",
                         SelectSeq(sent[roomName],
                                   LAMBDA msg : lastSweep - msg.timestamp < 600000))>>
           ELSE << >>]]_vars

\* a socket has just joined a room that has another member, a message that a
\* sweep removed and a message that is retained: it got the retained one
C5_Witness ==
  \E c \in Tabs : \E roomName \in DOMAIN rooms :
    /\ origin = c /\ c \in members[roomName] /\ members[roomName] # {c}
    /\ Log(roomName) # << >> /\ Len(sent[roomName]) > Len(Log(roomName))
    /\ emitted[c] = <<Packet("room-history", Log(roomName))>>

\* C8: no two messages of one room's log have the same id.
C8_LogIdsUnique ==
  \A roomName \in DOMAIN rooms : \A i, j \in DOMAIN Log(roomName) :
    i # j => Log(roomName)[i].id # Log(roomName)[j].id

\* C9: the timestamps of a room's log never decrease along the list.
C9_LogTimestampsSorted ==
  \A roomName \in DOMAIN rooms : \A i, j \in DOMAIN Log(roomName) :
    i < j => Log(roomName)[i].timestamp <= Log(roomName)[j].timestamp

\* a log holds two messages stamped at different times, with a sweep run after
\* the first was pushed
C9_Witness ==
  \E roomName \in DOMAIN rooms :
    /\ Len(Log(roomName)) = 2
    /\ Log(roomName)[1].timestamp < Log(roomName)[2].timestamp
    /\ lastSweep > Log(roomName)[1].timestamp

IsJoinedNotice(packet) ==
  /\ packet.type = "new-message"
  /\ "systemType" \in DOMAIN packet.arg
  /\ packet.arg.systemType = "join"

\* C10: when a socket joins a room, every other socket already registered in
\* the room is sent a "joined" system message.
C10_JoinAnnounced ==
  [][\A c \in Tabs : \A roomName \in RoomNames :
       OnJoinRoom(c, roomName) =>
         \A d \in members[roomName] \ {c} :
           \E i \in DOMAIN emitted'[d] : IsJoinedNotice(emitted'[d][i])]_vars

\* the guest tabs whose connection to host h is open at the host
OpenGuests(h) == {g \in Tabs : conn[g].state = "linking" /\ conn[g].host = h /\ conn[g].hostOpen}

\* C3: when the host receives a message on the connection of guest g, it sends
\* that message to every other guest whose connection is open at that moment.
C3_HostRelaysToOtherGuests ==
  [][\A h \in Tabs : \A g \in Tabs :
       (isHost[h] /\ g \in OpenGuests(h) /\ handleReceivedData(h, g)) =>
         \A other \in OpenGuests(h) \ {g} :
           wire'[<<h, other>>] = Append(wire[<<h, other>>], Head(wire[<<g, h>>]))]_vars

\* C6: when the connection of a joining guest opens at a host, the host sends
\* the guest every message of its current list.
C6_HostReplaysOnJoin ==
  [][\A h \in Tabs : \A g \in Tabs :
       HostConnOpen(h, g) =>
         \A i \in DOMAIN messages[h] :
           \E k \in DOMAIN wire'[<<h, g>>] : wire'[<<h, g>>][k] = messages[h][i]]_vars

\* the list grew by one entry
Appended(before, after) == Len(after) = Len(before) + 1

\* C7: appending is idempotent on id, for the server's room logs as for the
\* tabs' message lists: no append adds an entry whose id the list already
\* holds.
C7_AppendIdempotentOnId ==
  [][/\ \A roomName \in DOMAIN rooms :
          Appended(Log(roomName), rooms'[roomName].messages) =>
            Last(rooms'[roomName].messages).id \notin IdsOf(Log(roomName))
     /\ \A p \in Tabs :
          Appended(messages[p], messages'[p]) =>
            Last(messages'[p]).id \notin IdsOf(messages[p])]_vars
\* C12: no "room-history" snapshot sent for a join holds a message that is
\* 600000 ms old or older at the time of the join.
C12_HistoryHoldsNoExpired ==
  [][\A c \in Tabs : \A roomName \in RoomNames :
       OnJoinRoom(c, roomName) =>
         \A i \in DOMAIN emitted'[c] : \A k \in DOMAIN emitted'[c][i].arg :
           now - emitted'[c][i].arg[k].timestamp < 600000]_vars

\* C20: a room record appears only through a "join-room" or a "send-message"
\* that names it, and a record that exists is still there after every step.
C20_RoomRecordsStay ==
  [][/\ \A roomName \in DOMAIN rooms : roomName \in DOMAIN rooms'
     /\ \A roomName \in RoomNames :
          (roomName \notin DOMAIN rooms /\ roomName \in DOMAIN rooms') =>
            \E c \in Tabs : \/ OnJoinRoom(c, roomName)
                             \/ OnSendMessage(c, roomName, ClientMessage(c))]_vars

\* a room that had a member and a message has neither any more: a sweep has
\* emptied its log, its member has left, and its record is still there
C20_Witness ==
  \E roomName \in DOMAIN rooms :
    /\ Log(roomName) = << >> /\ sent[roomName] # << >>
    /\ members[roomName] = {} /\ lastSweep = now /\ now > 0
\* C14: every spelling of one room name (letter case and surrounding blanks
\* aside) addresses the same room: a client that joins under any spelling of
\* "x" is registered in the server's room "x", and a tab that hosts or joins
\* under any spelling of "x" uses the host id of "x".
C14_SpellingsAddressOneRoom ==
  [][/\ \A c \in Tabs : \A roomName \in TypedNames :
          handleJoinRoom(c, roomName) => c \in members'["x"]
     /\ \A p \in Tabs : \A type \in {"host", "join"} : \A roomName \in TypedNames :
          handleJoinOrCreate(p, type, roomName) =>
            "ppchat-rm-x" = (IF type = "host" THEN peer'[p].id ELSE joining'[p])]_vars
Range(list) == {list[i] : i \in DOMAIN list}

IsLeftNotice(packet) ==
  /\ packet.type = "new-message"
  /\ "systemType" \in DOMAIN packet.arg
  /\ packet.arg.systemType = "leave"

\* the server has sent socket d a "left" system message in this step
ToldLeft(d) == \E i \in DOMAIN emitted'[d] : IsLeftNotice(emitted'[d][i])

\* C11: when a member leaves a room, by "leave-room", by disconnecting or, at
\* a peer host, by the close of its connection, it is unregistered and every
\* remaining member is sent a "left" system message.
C11_LeaveAnnounced ==
  [][/\ \A c \in Tabs : \A roomName \in RoomNames :
          (c \in members[roomName] /\ (OnLeaveRoom(c, roomName) \/ OnDisconnect(c))) =>
            /\ c \notin members'[roomName]
            /\ \A d \in members'[roomName] : ToldLeft(d)
     /\ \A h \in Tabs : \A g \in Tabs :
          (g \in Range(connections[h]) /\ HostConnClose(h, g)) =>
            /\ g \notin Range(connections'[h])
            /\ \A other \in Range(connections'[h]) :
                 /\ Len(wire'[<<h, other>>]) = Len(wire[<<h, other>>]) + 1
                 /\ Last(wire'[<<h, other>>]).type = "system"]_vars

\* C15: two tabs never host under one room id; a tab whose host attempt meets
\* "unavailable-id" is not connected, not host and no longer connecting, shows
\* the room-taken error, and gets a new Peer only when its user asks again.
C15_OneHostPerRoomId ==
  [][/\ \A p \in Tabs : \A q \in Tabs \ {p} :
          ~(isHost'[p] /\ isHost'[q] /\ peer'[p].id = peer'[q].id)
     /\ \A p \in Tabs :
          HostPeerUnavailableId(p) =>
            /\ ~isConnected'[p] /\ ~isHost'[p] /\ ~isConnecting'[p]
            /\ error'[p] = "Room name is already taken."
     /\ \A p \in Tabs :
          (peer[p].state = "error" /\ peer'[p] # peer[p]) =>
            \E type \in {"host", "join"} : \E roomName \in PeerRooms :
              handleJoinOrCreate(p, type, roomName)]_vars

\* one tab hosts the room; another tab's host attempt for it has failed and
\* shows the error
C15_Witness ==
  \E p \in Tabs : \E q \in Tabs \ {p} :
    /\ isHost[q] /\ peer[q].state = "open"
    /\ peer[p].state = "error" /\ peer[p].id = peer[q].id
    /\ error[p] = "Room name is already taken."
    /\ ~isConnecting[p] /\ ~isConnected[p] /\ ~isHost[p]

\* C17: when the connection of a joined guest closes because its host is
\* gone, the guest is no longer connected.
C17_GuestDisconnectsWithHost ==
  [][\A g \in Tabs : (isConnected[g] /\ GuestConnClose(g)) => ~isConnected'[g]]_vars

NoDuplicates(list) == \A i, j \in DOMAIN list : i # j => list[i] # list[j]

\* C19: a host's connections never hold one remote peer twice, and the close
\* of a connection that is not registered leaves connections as it was.
C19_RegistryHoldsEachOnce ==
  [][/\ \A h \in Tabs : NoDuplicates(connections'[h])
     /\ \A h \in Tabs : \A g \in Tabs :
          (g \notin Range(connections[h]) /\ HostConnClose(h, g)) =>
            connections'[h] = connections[h]]_vars

\* a host with one guest registered has handled the close of another guest's
\* connection, which closed before it was registered
C19_Witness ==
  \E h \in Tabs : \E g \in Tabs : \E other \in Tabs \ {g} :
    /\ peer[h].state = "open"
    /\ conn[g].host = h /\ ~conn[g].hostOpen /\ conn[g].hostClosed
    /\ connections[h] = <<other>>
\* C16: a guest whose join no host answers (nobody holds the room id, or the
\* holder does not answer) leaves the connecting state and ends up not
\* connected with an error shown.
C16_UnansweredJoinEnds ==
  \A g \in Tabs :
    (conn[g].state \in {"unavailable", "unanswered"}) ~>
      (~isConnecting[g] /\ ~isConnected[g] /\ error[g] # Null)
\* the server's copy of a submitted message keeps every field of it
KeepsSubmitted(message, fullMessage) ==
  /\ DOMAIN fullMessage = DOMAIN message \cup {"id", "timestamp"}
  /\ \A f \in DOMAIN message : fullMessage[f] = message[f]

\* C13, as stated: a message that went through the relay has the sender, text
\* and file of the message that was submitted: the server's log entry and the
\* packet it broadcasts keep every submitted field, and the entry a tab adds
\* for a message it received has the sender, text and file that were sent.
C13_RoundTripKeepsFields ==
  [][/\ \A c \in Tabs : \A message \in Submissions(c) :
          OnSendMessage(c, "x", message) =>
            /\ KeepsSubmitted(message, Last(rooms'["x"].messages))
            /\ \A d \in members["x"] : emitted'[d] = Broadcast("x")
     /\ \A p \in Tabs : \A from \in Tabs :
          (handleReceivedData(p, from) /\ Appended(messages[p], messages'[p])) =>
            LET msg == Head(wire[<<from, p>>])
                got == Last(messages'[p]) IN
              /\ got.sender = msg.sender /\ got.text = msg.text
              /\ got.file = msg.file]_vars

\* C13, amended: as above, except that of the file a tab receives the
\* previewUrl is its own; id and timestamp of a received message are the
\* sender's, those of a log entry are the server's.
C13_RoundTripKeepsPayload ==
  [][/\ \A c \in Tabs : \A message \in Submissions(c) :
          OnSendMessage(c, "x", message) =>
            /\ KeepsSubmitted(message, Last(rooms'["x"].messages))
            /\ Last(rooms'["x"].messages).timestamp = now
            /\ \A d \in members["x"] : emitted'[d] = Broadcast("x")
     /\ \A p \in Tabs : \A from \in Tabs :
          (handleReceivedData(p, from) /\ Appended(messages[p], messages'[p])) =>
            LET msg == Head(wire[<<from, p>>])
                got == Last(messages'[p]) IN
              /\ got.sender = msg.sender /\ got.text = msg.text
              /\ got.id = msg.id /\ got.timestamp = msg.timestamp
              /\ [got.file EXCEPT !.previewUrl = Null] = [msg.file EXCEPT !.previewUrl = Null]
              /\ got.file.previewUrl = IF msg.file.data = Null THEN Null ELSE "blob:" \o p]_vars

\* a tab holds a file it received from another tab, under its own preview URL
C13_Witness ==
  \E p \in Tabs : \E i \in DOMAIN messages[p] :
    /\ messages[p][i].senderId # p
    /\ messages[p][i].file.data = "bytes"
    /\ messages[p][i].file.previewUrl = "blob:" \o p
\* C21: a guest forwards nothing: handling a message received from its host
\* sends on no connection and adds at most that message to its list, and a
\* message the guest types goes on its connection to the host and on no other.
C21_GuestsNeverForward ==
  [][\A g \in Tabs : \A h \in Tabs :
       (conn[g].host = h /\ ~isHost[g]) =>
         /\ handleReceivedData(g, h) =>
              /\ \A q \in Tabs : wire'[<<g, q>>] = wire[<<g, q>>]
              /\ messages'[g] \in {messages[g],
                                   Append(messages[g], processFileMessage(g, cleanMsg(Head(wire[<<h, g>>]))))}
         /\ (connections[g] # << >> /\ peerSendMessage(g)) =>
              /\ \E rnd \in Ids :
                   wire'[<<g, h>>] = Append(wire[<<g, h>>], ChatMessage(g, now, rnd))
              /\ \A q \in Tabs \ {h} : wire'[<<g, q>>] = wire[<<g, q>>]]_vars

\* a guest holds a message that its host typed, and nothing it sent is in flight
C21_Witness ==
  \E g \in Tabs : \E h \in Tabs \ {g} :
    /\ conn[g].host = h /\ conn[g].guestOpen /\ conn[g].state = "linking"
    /\ \E i \in DOMAIN messages[g] : messages[g][i].senderId = h /\ messages[g][i].text = "hi"
    /\ \A q \in Tabs : wire[<<g, q>>] = << >>

\* list sub is list full with some entries left out, the others in their order
RECURSIVE IsSubSeq(_, _)
IsSubSeq(sub, full) ==
  IF sub = << >> THEN TRUE
  ELSE IF full = << >> THEN FALSE
  ELSE IF Head(sub) = Head(full) THEN IsSubSeq(Tail(sub), Tail(full))
  ELSE IsSubSeq(sub, Tail(full))

\* C22: a sweep at time now takes out of every log the messages that are
\* 600000 ms old or older and no other: what is left is the old log without
\* them, in the old order.
C22_SweepRemovesExactlyExpired ==
  [][Sweep =>
       \A roomName \in DOMAIN rooms :
         LET old == rooms[roomName].messages
             new == rooms'[roomName].messages IN
           /\ IsSubSeq(new, old)
           /\ \A i \in DOMAIN new : now - new[i].timestamp < 600000
           /\ Len(new) = Cardinality({i \in DOMAIN old : now - old[i].timestamp < 600000})]_vars

\* a room was sent a message at 0 and one at 1; the sweep at 600000 has left
\* the second only
C22_Witness ==
  /\ now = 600000 /\ lastSweep = now
  /\ \E roomName \in DOMAIN rooms :
       /\ Len(sent[roomName]) = 2
       /\ sent[roomName][1].timestamp = 0 /\ sent[roomName][2].timestamp = 1
       /\ Log(roomName) = <<sent[roomName][2]>>

\* the fields of a message that identify it and say who wrote what, when
Identity(msg) == <<msg.id, msg.sender, msg.senderId, msg.text, msg.timestamp>>

\* C24: a message keeps its id, sender, senderId, text and timestamp on its
\* way: what a guest sends is the message it typed, which is also what it puts
\* in its own list when it puts one there, what a tab adds on receipt is what
\* was sent, and what a host passes on is what it received.
C24_RelayedUnchanged ==
  [][/\ \A g \in Tabs :
          (~isHost[g] /\ connections[g] # << >> /\ peerSendMessage(g)) =>
            /\ \E rnd \in Ids :
                 Identity(Last(wire'[<<g, connections[g][1]>>])) = Identity(ChatMessage(g, now, rnd))
            /\ Appended(messages[g], messages'[g]) =>
                 Identity(Last(messages'[g])) = Identity(Last(wire'[<<g, connections[g][1]>>]))
     /\ \A p \in Tabs : \A from \in Tabs :
          handleReceivedData(p, from) =>
            /\ Appended(messages[p], messages'[p]) =>
                 Identity(Last(messages'[p])) = Identity(Head(wire[<<from, p>>]))
            /\ \A q \in Tabs \ {from} :
                 wire'[<<p, q>>] \in {wire[<<p, q>>],
                                      Append(wire[<<p, q>>], Head(wire[<<from, p>>]))}]_vars

\* a host and a guest both hold the message that the guest typed
C24_Witness ==
  \E g \in Tabs : \E h \in Tabs \ {g} :
    /\ conn[g].host = h /\ isHost[h]
    /\ \E i \in DOMAIN messages[g] : \E j \in DOMAIN messages[h] :
         /\ messages[g][i].senderId = g /\ messages[g][i].text = "hi"
         /\ Identity(messages[h][j]) = Identity(messages[g][i])

\* C26: a "send-message" from a socket that is not registered in the room it
\* names changes no log and is sent to nobody.
C26_OnlyMembersSend ==
  [][\A c \in Tabs : \A roomName \in RoomNames :
       (c \notin members[roomName] /\ OnSendMessage(c, roomName, ClientMessage(c))) =>
         /\ rooms' = rooms
         /\ emitted' = Nothing]_vars

\* C29: id de-duplication never discards a notification: the join notice of
\* every guest whose connection has opened is added to the host's list when
\* it arrives.
C29_NoticesNeverDiscarded ==
  [][\A h \in Tabs : \A g \in Tabs :
       (conn[g].host = h /\ handleReceivedData(h, g)
          /\ Head(wire[<<g, h>>]).type = "system") =>
         /\ Appended(messages[h], messages'[h])
         /\ Last(messages'[h]).senderId = g]_vars
\* C23: the server assigns id and timestamp itself. Every message a
\* "send-message" puts into a room log carries an id the server generated and
\* the server clock of that moment, whatever id or timestamp the submitted
\* message carried; what is broadcast as "new-message" is that log entry.
C23_ServerStamps ==
  [][\A r \in AllRooms : sent'[r] # sent[r] =>
       LET fullMessage == Last(rooms'[r].messages) IN
         /\ fullMessage = Last(sent'[r])
         /\ fullMessage.id \in Ids
         /\ fullMessage.timestamp = now
         /\ \A i \in DOMAIN rooms'[r].messages : rooms'[r].messages[i].id \in Ids
         /\ \A d \in members[r] : emitted'[d] = <<Packet("new-message", fullMessage)>>
         /\ \A d \in Tabs \ members[r] : emitted'[d] = << >>]_vars

\* a message submitted with its own id and timestamp is in the log under a
\* server id and the server's time, and a member has been sent it
C23_Witness ==
  /\ "x" \in DOMAIN rooms
  /\ rooms["x"].messages # << >>
  /\ "text" \in DOMAIN Last(Log("x"))
  /\ Last(Log("x")).text = "forged"
  /\ Last(Log("x")).id \in Ids
  /\ Last(Log("x")).timestamp = 600000
  /\ \E d \in members["x"] : emitted[d] = <<Packet("new-message", Last(Log("x")))>>

\* C30: while the sweep runs every CLEANUP_INTERVAL, no room log holds a
\* message 660000 ms (MESSAGE_TTL + CLEANUP_INTERVAL) or more after its
\* timestamp, and a sweep leaves none that is MESSAGE_TTL old: every message
\* is gone by the first sweep at which it is MESSAGE_TTL old.
C30_RemovedWithinTtlPlusInterval ==
  /\ \A r \in DOMAIN rooms : \A i \in DOMAIN rooms[r].messages :
       now - rooms[r].messages[i].timestamp < MESSAGE_TTL + CLEANUP_INTERVAL
  /\ now = lastSweep /\ lastSweep > 0 =>
       \A r \in DOMAIN rooms : \A i \in DOMAIN rooms[r].messages :
         now - rooms[r].messages[i].timestamp < MESSAGE_TTL

\* between two sweeps a log holds a message whose age is in [600000, 660000)
C30_Witness ==
  /\ lastSweep < now
  /\ now < lastSweep + CLEANUP_INTERVAL
  /\ \E r \in DOMAIN rooms : \E i \in DOMAIN rooms[r].messages :
       /\ now - rooms[r].messages[i].timestamp >= MESSAGE_TTL
       /\ now - rooms[r].messages[i].timestamp < MESSAGE_TTL + CLEANUP_INTERVAL
       /\ rooms[r].messages[i].timestamp < lastSweep

\* C25: a client shows itself as joined to a room only once the authority has
\* registered it: the socket.io App sets currentRoom to r only when the server
\* has its socket in room r, and a peer guest sets isConnected only when its
\* connection to the host is open, having been connecting before.
C25_JoinedOnlyOnceRegistered ==
  [][\A c \in Tabs :
       /\ mode = "client" /\ currentRoom'[c] # Null /\ currentRoom'[c] # currentRoom[c]
            => c \in members'[currentRoom'[c]]
       /\ mode = "peer" /\ isConnected'[c] /\ ~isConnected[c]
            => /\ isConnecting[c]
               /\ isHost'[c] \/ conn'[c].guestOpen]_vars

\* the server has handled the join of c to r, and c has not left r since
JoinedAtServer(c, r) ==
  /\ currentRoom[c] = r
  /\ r \in joined[c]
  /\ \A i \in DOMAIN toServer[c] : toServer[c][i].type # "join-room"

\* C27: a socket.io client that has joined room r and not left it is sent
\* every message the server takes for r afterwards, as long as it shows r as
\* its current room, also after its socket dropped and reconnected.
C27_JoinedKeepsReceiving ==
  [][\A r \in RoomNames : sent'[r] # sent[r] =>
       \A c \in ClientTabs :
         mode = "client" /\ JoinedAtServer(c, r) =>
           emitted'[c] = <<Packet("new-message", Last(sent'[r]))>>]_vars

\* the "room-history" of the join that made r the current room of c has arrived
SnapshotArrived(c, r) ==
  /\ JoinedAtServer(c, r)
  /\ c \in members[r]
  /\ \A i \in DOMAIN toClient[c] : toClient[c][i].type # "room-history"

\* the list of c holds messages of room r only, in the order the server
\* appended them, and every message the log of r retains once nothing is in flight
ListFollowsLog(c, r) ==
  /\ IsSubSeq(messages[c], sent[r])
  /\ toClient[c] = << >> => Range(Log(r)) \subseteq Range(messages[c])

\* C28: while a socket.io client stays joined to r without losing its
\* socket, its list is the snapshot it got at the join followed by what was
\* appended to r since, in the server's order: no id is in it twice, no other
\* room's message is in it, and it holds all the log of r retains once the
\* deliveries in flight have arrived.
C28_ListIsSnapshotThenAppends ==
  mode = "client" =>
    \A c \in ClientTabs : \A r \in RoomNames :
      SnapshotArrived(c, r) =>
        /\ ListFollowsLog(c, r)
        /\ \A i, j \in DOMAIN messages[c] : i # j => messages[c][i].id # messages[c][j].id

====
